---- MODULE Spec2Model ----
(***************************************************************************)
(* Secudity audit toolkit: the gas analyzer's rule engine                  *)
(* (src/src/scanner/gas_analyzer.py) and the markdown report generator     *)
(* (src/src/reporter/markdown_generator.py).                               *)
(*                                                                         *)
(* Source lines are TLA+ strings; Python's `pat in line` is Contains, the  *)
(* regular expressions are matched character by character.                 *)
(***************************************************************************)
EXTENDS Integers, Sequences, FiniteSets, TLC

VARIABLES
    contract_code,      \* text of the analysed file
    lines,              \* GasAnalyzer.lines
    optimizations,      \* GasAnalyzer.optimizations
    runs,               \* analyze_all calls made on this GasAnalyzer
    returned,           \* value returned by the last analyze_all call
    first_returned,     \* value the first analyze_all call returned
    gas_results,        \* values returned by the analyze_gas calls so far
    snippet,            \* value returned by the last _get_code_snippet call
    snippet_args,       \* <<line_index, context>> of that call
    snippet_reads,      \* indexes of self.lines that call subscripted
    vulnerabilities,    \* list handed to generate_report
    gas_optimizations,  \* list handed to generate_report
    report,             \* document returned by generate_report
    pc,                 \* position of the caller
    command,            \* CLI command invoked ("" when the CLI is not in use)
    cli_contract_path,  \* the CLI's contract_path argument
    calls               \* functions run to completion: those a CLI command
                        \* called, the check methods analyze_all called

vars == <<contract_code, lines, optimizations, runs, returned, first_returned,
          gas_results, snippet, snippet_args, snippet_reads, vulnerabilities,
          gas_optimizations, report, pc, command, cli_contract_path,
          calls>>

gasVars == <<contract_code, lines, optimizations, runs, returned,
             first_returned, gas_results>>
snippetVars == <<snippet, snippet_args, snippet_reads>>
reportVars == <<vulnerabilities, gas_optimizations, report>>
cliVars == <<command, cli_contract_path, calls>>

-----------------------------------------------------------------------------
(* Bounds *)

MaxLines == 2
MaxSnippetLines == 3
MaxRuns == 2
MaxContext == 3

-----------------------------------------------------------------------------
(* String helpers: Python's str operations on a line *)

Min(S) == CHOOSE m \in S : \A k \in S : m <= k

Contains(line, pat) ==
    \E i \in 1..(Len(line) - Len(pat) + 1) : SubSeq(line, i, i + Len(pat) - 1) = pat

\* str.find, 1-based; 0 when pat does not occur
Find(line, pat) ==
    LET S == {i \in 1..(Len(line) - Len(pat) + 1) :
                 SubSeq(line, i, i + Len(pat) - 1) = pat}
    IN IF S = {} THEN 0 ELSE Min(S)

WordChars ==
    {"a", "b", "c", "d", "e", "f", "g", "h", "i", "j", "k", "l", "m", "n", "o",
     "p", "q", "r", "s", "t", "u", "v", "w", "x", "y", "z",
     "A", "B", "C", "D", "E", "F", "G", "H", "I", "J", "K", "L", "M", "N", "O",
     "P", "Q", "R", "S", "T", "U", "V", "W", "X", "Y", "Z",
     "0", "1", "2", "3", "4", "5", "6", "7", "8", "9", "_"}

SpaceChars == {" ", "\t", "\n"}

CharAt(line, k) == SubSeq(line, k, k)

\* line[p-1:].startswith(pat), p 1-based
StartsAt(line, p, pat) ==
    /\ p + Len(pat) - 1 <= Len(line)
    /\ SubSeq(line, p, p + Len(pat) - 1) = pat

\* first position >= j whose character is not in class C (Len + 1 if none)
RunEnd(line, j, C) ==
    LET S == {k \in j..Len(line) : CharAt(line, k) \notin C}
    IN IF S = {} THEN Len(line) + 1 ELSE Min(S)

\* str.split(sep): the pieces between non-overlapping occurrences of sep
RECURSIVE Split(_, _)
Split(text, sep) ==
    LET p == Find(text, sep)
    IN IF p = 0 THEN <<text>>
       ELSE <<SubSeq(text, 1, p - 1)>>
            \o Split(SubSeq(text, p + Len(sep), Len(text)), sep)

RECURSIVE FlatMap(_, _, _)
FlatMap(F(_), i, n) == IF i >= n THEN <<>> ELSE F(i) \o FlatMap(F, i + 1, n)

\* '\n'.join(parts)
RECURSIVE Join(_, _)
Join(parts, sep) ==
    IF parts = <<>> THEN ""
    ELSE IF Len(parts) = 1 THEN parts[1]
    ELSE parts[1] \o sep \o Join(Tail(parts), sep)

IndexError == "<IndexError>"

\* self.lines[i]: Python's 0-based subscript; a negative index counts from the
\* end, an index outside [-len, len) raises IndexError
LineAt(lns, i) ==
    IF i >= 0 /\ i < Len(lns) THEN lns[i + 1]
    ELSE IF i < 0 /\ i >= -Len(lns) THEN lns[Len(lns) + i + 1]
    ELSE IndexError

-----------------------------------------------------------------------------
(* gas_analyzer.py: GasOptimization and GasAnalyzer *)

ContractPath == "Token.sol"

GasOptimization(category, description, location, line_number, code_snippet, suggestion, estimated_savings) ==
    [category |-> category, description |-> description, location |-> location,
     line_number |-> line_number, code_snippet |-> code_snippet,
     suggestion |-> suggestion, estimated_savings |-> estimated_savings]

\* SnippetRange without the clamp of `end` to len(self.lines)
SnippetRangeUnclamped(lns, line_index, context) ==
    LET start == IF line_index - context > 0 THEN line_index - context ELSE 0
        stop == line_index + context + 1
    IN [k \in 1..(IF stop > start THEN stop - start ELSE 0) |-> start + k - 1]

\* range(start, end) of _get_code_snippet: the 0-based indexes it reads
SnippetRange(lns, line_index, context) ==
    LET start == IF line_index - context > 0 THEN line_index - context ELSE 0
        stop == IF Len(lns) < line_index + context + 1
                THEN Len(lns) ELSE line_index + context + 1
    IN [k \in 1..(IF stop > start THEN stop - start ELSE 0) |-> start + k - 1]

\* f"{marker}{i + 1}: {self.lines[i]}"
SnippetLine(lns, line_index, i) ==
    (IF i = line_index THEN ">>> " ELSE "    ")
        \o ToString(i + 1) \o ": " \o LineAt(lns, i)

_get_code_snippet(lns, line_index, context) ==
    LET idx == SnippetRange(lns, line_index, context)
    IN Join([k \in 1..Len(idx) |-> SnippetLine(lns, line_index, idx[k])], "\n")

\* GasAnalyzer.__init__: self.lines = contract_code.split('\n')
GasAnalyzerLines(code) == Split(code, "\n")

\* StorageScan that stays in the loop when a line holds '}'
RECURSIVE StorageScanIgnoringBraces(_, _, _, _)
StorageScanIgnoringBraces(lns, path, i, in_loop) ==
    IF i >= Len(lns) THEN <<>>
    ELSE LET line == LineAt(lns, i)
         IN IF Contains(line, "for") /\ Contains(line, "(")
            THEN StorageScanIgnoringBraces(lns, path, i + 1, TRUE)
            ELSE IF in_loop /\ Contains(line, "[") /\ Contains(line, "]")
            THEN (IF Contains(line, "balances[") \/ Contains(line, "users[")
                     \/ Contains(line, "items[")
                  THEN <<GasOptimization(
                           "Storage Access",
                           "Storage variable accessed inside loop",
                           path, i + 1, _get_code_snippet(lns, i, 2),
                           "Cache storage values in memory before the loop to save gas. Each storage read costs ~2100 gas.",
                           "~2100 gas per iteration")>>
                  ELSE <<>>)
                 \o StorageScanIgnoringBraces(lns, path, i + 1, in_loop)
            ELSE StorageScanIgnoringBraces(lns, path, i + 1, in_loop)

RECURSIVE StorageScan(_, _, _, _)
StorageScan(lns, path, i, in_loop) ==
    IF i >= Len(lns) THEN <<>>
    ELSE LET line == LineAt(lns, i)
         IN IF Contains(line, "for") /\ Contains(line, "(")
            THEN StorageScan(lns, path, i + 1, TRUE)
            ELSE IF in_loop /\ Contains(line, "}")
            THEN StorageScan(lns, path, i + 1, FALSE)
            ELSE IF in_loop /\ Contains(line, "[") /\ Contains(line, "]")
            THEN (IF Contains(line, "balances[") \/ Contains(line, "users[")
                     \/ Contains(line, "items[")
                  THEN <<GasOptimization(
                           "Storage Access",
                           "Storage variable accessed inside loop",
                           path, i + 1, _get_code_snippet(lns, i, 2),
                           "Cache storage values in memory before the loop to save gas. Each storage read costs ~2100 gas.",
                           "~2100 gas per iteration")>>
                  ELSE <<>>)
                 \o StorageScan(lns, path, i + 1, in_loop)
            ELSE StorageScan(lns, path, i + 1, in_loop)

check_storage_vs_memory(lns, path, opts) ==
    opts \o StorageScan(lns, path, 0, FALSE)

IsStateVarLine(line) ==
    /\ Contains(line, "uint256") \/ Contains(line, "address") \/ Contains(line, "bool")
    /\ Contains(line, "public")
    /\ ~Contains(line, "function")
    /\ ~Contains(line, "return")

\* check_state_variable_packing giving state_vars[0][0] as line_number, without
\* the + 1
check_state_variable_packing_zero_based(lns, path, opts) ==
    LET state_vars == {i \in 0..(Len(lns) - 1) : IsStateVarLine(LineAt(lns, i))}
        has_uint256 == \E i \in state_vars : Contains(LineAt(lns, i), "uint256")
        has_smaller_types ==
            \E i \in state_vars :
                \/ Contains(LineAt(lns, i), "bool")
                \/ Contains(LineAt(lns, i), "uint8")
                \/ Contains(LineAt(lns, i), "uint16")
                \/ Contains(LineAt(lns, i), "uint32")
    IN IF Cardinality(state_vars) > 1 /\ has_uint256 /\ has_smaller_types
       THEN Append(opts, GasOptimization(
                "Storage Packing",
                "State variables could be packed more efficiently",
                path, Min(state_vars),
                "Multiple state variable declarations",
                "Group smaller types (bool, uint8, uint16, etc.) together. Multiple variables fitting in 32 bytes share one storage slot.",
                "~20,000 gas per saved storage slot"))
       ELSE opts

check_state_variable_packing(lns, path, opts) ==
    LET state_vars == {i \in 0..(Len(lns) - 1) : IsStateVarLine(LineAt(lns, i))}
        has_uint256 == \E i \in state_vars : Contains(LineAt(lns, i), "uint256")
        has_smaller_types ==
            \E i \in state_vars :
                \/ Contains(LineAt(lns, i), "bool")
                \/ Contains(LineAt(lns, i), "uint8")
                \/ Contains(LineAt(lns, i), "uint16")
                \/ Contains(LineAt(lns, i), "uint32")
    IN IF Cardinality(state_vars) > 1 /\ has_uint256 /\ has_smaller_types
       THEN Append(opts, GasOptimization(
                "Storage Packing",
                "State variables could be packed more efficiently",
                path, Min(state_vars) + 1,
                "Multiple state variable declarations",
                "Group smaller types (bool, uint8, uint16, etc.) together. Multiple variables fitting in 32 bytes share one storage slot.",
                "~20,000 gas per saved storage slot"))
       ELSE opts

LengthFinding(lns, path, i) ==
    IF Contains(LineAt(lns, i), "for") /\ Contains(LineAt(lns, i), ".length")
    THEN <<GasOptimization(
             "Loop Optimization",
             "Array length read in every loop iteration",
             path, i + 1, _get_code_snippet(lns, i, 2),
             "Cache array length in a local variable before the loop: uint256 len = array.length; for(uint256 i=0; i<len; i++)",
             "~3 gas per iteration")>>
    ELSE <<>>

IncrementFinding(lns, path, i) ==
    IF Contains(LineAt(lns, i), "for") /\ Contains(LineAt(lns, i), "i++")
    THEN <<GasOptimization(
             "Loop Optimization",
             "Post-increment (i++) is less gas efficient than pre-increment",
             path, i + 1, _get_code_snippet(lns, i, 2),
             "Use ++i instead of i++ in loops to save gas",
             "~5 gas per iteration")>>
    ELSE <<>>

\* the loop of check_loop_optimizations, with the two `if` statements of its
\* body switched by `on`
LoopScan(on, lns, path) ==
    LET body(i) ==
            (IF "loop_length" \in on THEN LengthFinding(lns, path, i) ELSE <<>>)
            \o (IF "loop_increment" \in on THEN IncrementFinding(lns, path, i) ELSE <<>>)
    IN FlatMap(body, 0, Len(lns))

check_loop_optimizations(lns, path, opts) ==
    opts \o LoopScan({"loop_length", "loop_increment"}, lns, path)

check_require_vs_custom_errors(lns, path, opts) ==
    LET body(i) ==
            IF Contains(LineAt(lns, i), "require(") /\ Contains(LineAt(lns, i), "\"")
            THEN <<GasOptimization(
                     "Error Handling",
                     "require() with string message is gas inefficient",
                     path, i + 1, _get_code_snippet(lns, i, 1),
                     "Use custom errors instead of require with string messages. Custom errors are significantly cheaper.",
                     "~50 gas")>>
            ELSE <<>>
    IN opts \o FlatMap(body, 0, Len(lns))

NoMatch == [matched |-> FALSE, name |-> ""]

\* re.search(r'uint256\s+(\w+)\s*=', line): group(1) of the leftmost match
SearchUintAssign(line) ==
    LET at(p) ==
            LET a == p + 7
                b == RunEnd(line, a, SpaceChars)
                c == RunEnd(line, b, WordChars)
                d == RunEnd(line, c, SpaceChars)
            IN [matched |-> /\ StartsAt(line, p, "uint256")
                            /\ b > a /\ c > b
                            /\ d <= Len(line) /\ CharAt(line, d) = "=",
                name |-> SubSeq(line, b, c - 1)]
        S == {p \in 1..Len(line) : at(p).matched}
    IN IF S = {} THEN NoMatch ELSE at(Min(S))

\* the tests of check_unnecessary_variables that come before it looks at the
\* next line
UnnecessaryCandidate(line) ==
    /\ Contains(line, "uint256") /\ Contains(line, "=")
    /\ ~Contains(line, "function")
    /\ SearchUintAssign(line).matched

check_unnecessary_variables(lns, path, opts) ==
    LET body(i) ==
            LET line == LineAt(lns, i)
                var_match == SearchUintAssign(line)
            IN IF /\ UnnecessaryCandidate(line)
                  /\ i + 1 < Len(lns)
                  /\ Contains(LineAt(lns, i + 1), "return " \o var_match.name)
               THEN <<GasOptimization(
                        "Unnecessary Variable",
                        "Variable '" \o var_match.name \o "' is used only once",
                        path, i + 1, _get_code_snippet(lns, i, 2),
                        "Return the value directly without storing in a variable",
                        "~3 gas")>>
               ELSE <<>>
    IN opts \o FlatMap(body, 0, Len(lns))

\* re.search(r'function\s+(\w+)', line): group(1), or "" without a match
_extract_function_name(line) ==
    LET at(p) ==
            LET a == p + 8
                b == RunEnd(line, a, SpaceChars)
                c == RunEnd(line, b, WordChars)
            IN [matched |-> /\ StartsAt(line, p, "function")
                            /\ b > a /\ c > b,
                name |-> SubSeq(line, b, c - 1)]
        S == {p \in 1..Len(line) : at(p).matched}
    IN IF S = {} THEN "" ELSE at(Min(S)).name

\* check_public_vs_external looking for a this.name( call instead of a call
\* without this.
check_public_vs_external_self_qualified(lns, path, opts) ==
    LET body(i) ==
            LET line == LineAt(lns, i)
                func_name == _extract_function_name(line)
                self_call ==
                    \E k \in 0..(Len(lns) - 1) :
                        Contains(LineAt(lns, k), "this." \o func_name \o "(")
            IN IF /\ Contains(line, "function") /\ Contains(line, "public")
                  /\ ~Contains(line, "constructor")
                  /\ ~self_call
               THEN <<GasOptimization(
                        "Function Visibility",
                        "Function '" \o func_name \o "' could be external instead of public",
                        path, i + 1, _get_code_snippet(lns, i, 1),
                        "Use 'external' instead of 'public' if function is not called internally. External is cheaper for calldata.",
                        "~200-2000 gas depending on parameters")>>
               ELSE <<>>
    IN opts \o FlatMap(body, 0, Len(lns))

check_public_vs_external(lns, path, opts) ==
    LET body(i) ==
            LET line == LineAt(lns, i)
                func_name == _extract_function_name(line)
                internal_call ==
                    \E k \in 0..(Len(lns) - 1) :
                        /\ Contains(LineAt(lns, k), func_name \o "(")
                        /\ ~Contains(LineAt(lns, k), "function")
                        /\ ~Contains(LineAt(lns, k), "this.")
            IN IF /\ Contains(line, "function") /\ Contains(line, "public")
                  /\ ~Contains(line, "constructor")
                  /\ ~internal_call
               THEN <<GasOptimization(
                        "Function Visibility",
                        "Function '" \o func_name \o "' could be external instead of public",
                        path, i + 1, _get_code_snippet(lns, i, 1),
                        "Use 'external' instead of 'public' if function is not called internally. External is cheaper for calldata.",
                        "~200-2000 gas depending on parameters")>>
               ELSE <<>>
    IN opts \o FlatMap(body, 0, Len(lns))

\* re.search(r'(uint256|address)\s+public\s+(\w+)', line): group(2)
SearchPublicVar(line) ==
    LET at(p) ==
            LET a == p + 7
                b == RunEnd(line, a, SpaceChars)
                c == b + 6
                d == RunEnd(line, c, SpaceChars)
                e == RunEnd(line, d, WordChars)
            IN [matched |-> /\ StartsAt(line, p, "uint256") \/ StartsAt(line, p, "address")
                            /\ b > a
                            /\ StartsAt(line, b, "public")
                            /\ d > c /\ e > d,
                name |-> SubSeq(line, d, e - 1)]
        S == {p \in 1..Len(line) : at(p).matched}
    IN IF S = {} THEN NoMatch ELSE at(Min(S))

\* check_constant_immutable without its test for '=' in the declaration line
check_constant_immutable_any_declaration(lns, path, opts) ==
    LET body(i) ==
            LET line == LineAt(lns, i)
                var_match == SearchPublicVar(line)
                is_modified ==
                    \E k \in 0..(Len(lns) - 1) :
                        /\ Contains(LineAt(lns, k), var_match.name \o " =")
                        /\ ~Contains(LineAt(lns, k), "public")
            IN IF /\ Contains(line, "uint256") \/ Contains(line, "address")
                  /\ Contains(line, "public")
                  /\ ~Contains(line, "constant")
                  /\ ~Contains(line, "immutable")
                  /\ var_match.matched
                  /\ ~is_modified
               THEN <<GasOptimization(
                        "State Variable",
                        "Variable '" \o var_match.name \o "' could be constant or immutable",
                        path, i + 1, _get_code_snippet(lns, i, 1),
                        "Use 'constant' for compile-time constants or 'immutable' for constructor-set values. Saves gas on every read.",
                        "~2100 gas per read operation")>>
               ELSE <<>>
    IN opts \o FlatMap(body, 0, Len(lns))

check_constant_immutable(lns, path, opts) ==
    LET body(i) ==
            LET line == LineAt(lns, i)
                var_match == SearchPublicVar(line)
                is_modified ==
                    \E k \in 0..(Len(lns) - 1) :
                        /\ Contains(LineAt(lns, k), var_match.name \o " =")
                        /\ ~Contains(LineAt(lns, k), "public")
            IN IF /\ Contains(line, "uint256") \/ Contains(line, "address")
                  /\ Contains(line, "public")
                  /\ ~Contains(line, "constant")
                  /\ ~Contains(line, "immutable")
                  /\ Contains(line, "=")
                  /\ var_match.matched
                  /\ ~is_modified
               THEN <<GasOptimization(
                        "State Variable",
                        "Variable '" \o var_match.name \o "' could be constant or immutable",
                        path, i + 1, _get_code_snippet(lns, i, 1),
                        "Use 'constant' for compile-time constants or 'immutable' for constructor-set values. Saves gas on every read.",
                        "~2100 gas per read operation")>>
               ELSE <<>>
    IN opts \o FlatMap(body, 0, Len(lns))

\* check_short_circuit_evaluation made to skip a line that already has a
\* finding in self.optimizations
check_short_circuit_deduplicating(lns, path, opts) ==
    LET body(i) ==
            LET line == LineAt(lns, i)
            IN IF /\ Contains(line, "require(") \/ Contains(line, "if")
                  /\ Contains(line, "&&")
                  /\ Contains(Split(line, "&&")[2], "msg.sender")
                  /\ \A k \in 1..Len(opts) : opts[k].line_number # i + 1
               THEN <<GasOptimization(
                        "Short-Circuit Evaluation",
                        "Expensive check before cheaper check",
                        path, i + 1, _get_code_snippet(lns, i, 1),
                        "Place cheaper conditions first in boolean expressions. If first condition fails, second won't be evaluated.",
                        "Variable savings")>>
               ELSE <<>>
    IN opts \o FlatMap(body, 0, Len(lns))

\* the outer test of check_short_circuit_evaluation
ShortCircuitCandidate(line) ==
    /\ Contains(line, "require(") \/ Contains(line, "if")
    /\ Contains(line, "&&")

check_short_circuit_evaluation(lns, path, opts) ==
    LET body(i) ==
            LET line == LineAt(lns, i)
            IN IF /\ ShortCircuitCandidate(line)
                  /\ Contains(Split(line, "&&")[2], "msg.sender")
               THEN <<GasOptimization(
                        "Short-Circuit Evaluation",
                        "Expensive check before cheaper check",
                        path, i + 1, _get_code_snippet(lns, i, 1),
                        "Place cheaper conditions first in boolean expressions. If first condition fails, second won't be evaluated.",
                        "Variable savings")>>
               ELSE <<>>
    IN opts \o FlatMap(body, 0, Len(lns))

\* The rules of the engine, in the order analyze_all reaches them; the third
\* and fourth are the two tests of check_loop_optimizations' loop body.
AllRules ==
    {"storage_vs_memory", "state_variable_packing", "loop_length",
     "loop_increment", "require_vs_custom_errors", "unnecessary_variables",
     "public_vs_external", "constant_immutable", "short_circuit_evaluation"}

\* one call of analyze_all's body, made only if its rule is left in place
Guarded(check(_, _, _), enabled, lns, path, opts) ==
    IF enabled THEN check(lns, path, opts) ELSE opts

\* the call of check_loop_optimizations, with the tests of `on` left in place
GuardedLoop(on, lns, path, opts) ==
    IF {"loop_length", "loop_increment"} \subseteq on
    THEN check_loop_optimizations(lns, path, opts)
    ELSE opts \o LoopScan(on, lns, path)

\* analyze_all with only the rules of `on` left in place
RunChecks(on, lns, path, opts) ==
    Guarded(check_short_circuit_evaluation, "short_circuit_evaluation" \in on, lns, path,
     Guarded(check_constant_immutable, "constant_immutable" \in on, lns, path,
      Guarded(check_public_vs_external, "public_vs_external" \in on, lns, path,
       Guarded(check_unnecessary_variables, "unnecessary_variables" \in on, lns, path,
        Guarded(check_require_vs_custom_errors, "require_vs_custom_errors" \in on, lns, path,
         GuardedLoop(on, lns, path,
          Guarded(check_state_variable_packing, "state_variable_packing" \in on, lns, path,
           Guarded(check_storage_vs_memory, "storage_vs_memory" \in on, lns, path,
                   opts))))))))

\* analyze_all with check_require_vs_custom_errors called before
\* check_loop_optimizations
analyze_all_reordered(lns, path, opts) ==
    check_short_circuit_evaluation(lns, path,
     check_constant_immutable(lns, path,
      check_public_vs_external(lns, path,
       check_unnecessary_variables(lns, path,
        check_loop_optimizations(lns, path,
         check_require_vs_custom_errors(lns, path,
          check_state_variable_packing(lns, path,
           check_storage_vs_memory(lns, path, opts))))))))

\* GasAnalyzer.analyze_all: the value of self.optimizations it leaves and returns
analyze_all(lns, path, opts) == RunChecks(AllRules, lns, path, opts)

\* analyze_gas(contract_path): a new GasAnalyzer on the file's text
analyze_gas(code, path) == analyze_all(GasAnalyzerLines(code), path, <<>>)

-----------------------------------------------------------------------------
(* Exceptions: the subscripts a check evaluates, and whether one of them is  *)
(* out of range.  An exception raised in a check leaves analyze_all at once. *)

\* the check methods, in the order analyze_all calls them
CheckMethods ==
    <<"check_storage_vs_memory", "check_state_variable_packing",
      "check_loop_optimizations", "check_require_vs_custom_errors",
      "check_unnecessary_variables", "check_public_vs_external",
      "check_constant_immutable", "check_short_circuit_evaluation">>

\* the rules a check method holds
MethodRules(method) ==
    CASE method = "check_storage_vs_memory" -> {"storage_vs_memory"}
      [] method = "check_state_variable_packing" -> {"state_variable_packing"}
      [] method = "check_loop_optimizations" -> {"loop_length", "loop_increment"}
      [] method = "check_require_vs_custom_errors" -> {"require_vs_custom_errors"}
      [] method = "check_unnecessary_variables" -> {"unnecessary_variables"}
      [] method = "check_public_vs_external" -> {"public_vs_external"}
      [] method = "check_constant_immutable" -> {"constant_immutable"}
      [] method = "check_short_circuit_evaluation" -> {"short_circuit_evaluation"}

\* _get_code_snippet(line_index, context) raises IndexError: a subscript
\* self.lines[i] of its loop is out of range
SnippetRaises(lns, line_index, context) ==
    LET idx == SnippetRange(lns, line_index, context)
    IN \E k \in 1..Len(idx) : LineAt(lns, idx[k]) = IndexError

\* the method's _get_code_snippet(i, context) call raises for one of its findings
SnippetFault(lns, found, context) ==
    \E k \in 1..Len(found) : SnippetRaises(lns, found[k].line_number - 1, context)

\* the check method raises when called on the lines lns
RaisedBy(method, lns) ==
    CASE method = "check_storage_vs_memory" ->
            SnippetFault(lns, check_storage_vs_memory(lns, "", <<>>), 2)
      [] method = "check_state_variable_packing" ->
            \* state_vars[0] is read under len(state_vars) > 1
            FALSE
      [] method = "check_loop_optimizations" ->
            SnippetFault(lns, check_loop_optimizations(lns, "", <<>>), 2)
      [] method = "check_require_vs_custom_errors" ->
            SnippetFault(lns, check_require_vs_custom_errors(lns, "", <<>>), 1)
      [] method = "check_unnecessary_variables" ->
            \/ \E i \in 0..(Len(lns) - 1) :
                  /\ UnnecessaryCandidate(LineAt(lns, i))
                  /\ i + 1 < Len(lns)
                  /\ LineAt(lns, i + 1) = IndexError
            \/ SnippetFault(lns, check_unnecessary_variables(lns, "", <<>>), 2)
      [] method = "check_public_vs_external" ->
            \* _extract_function_name returns "" without a match
            SnippetFault(lns, check_public_vs_external(lns, "", <<>>), 1)
      [] method = "check_constant_immutable" ->
            \* var_match.group(2) is read under `if var_match`
            SnippetFault(lns, check_constant_immutable(lns, "", <<>>), 1)
      [] method = "check_short_circuit_evaluation" ->
            \/ \E i \in 0..(Len(lns) - 1) :
                  /\ ShortCircuitCandidate(LineAt(lns, i))
                  /\ Len(Split(LineAt(lns, i), "&&")) < 2
            \/ SnippetFault(lns, check_short_circuit_evaluation(lns, "", <<>>), 1)

\* the check methods analyze_all runs to completion: those before the first
\* one that raises
ChecksCompleted(lns) ==
    LET R == {k \in 1..Len(CheckMethods) : RaisedBy(CheckMethods[k], lns)}
    IN IF R = {} THEN CheckMethods ELSE SubSeq(CheckMethods, 1, Min(R) - 1)

\* the rules of the check methods in `methods`
RulesOf(methods) == UNION {MethodRules(methods[k]) : k \in 1..Len(methods)}

-----------------------------------------------------------------------------
(* The analysed files *)

SourceLines ==
    {"for (i; i < a.length; i++) {",
     "users[i] = 1;",
     "}",
     "uint256 public x = 1;",
     "bool public b;",
     "require(a && msg.sender == o, \"e\");",
     "uint256 y = 1;",
     "return y;",
     "function f() public {",
     "function () public {",
     "if (a &&"}

SeqsUpTo(S, n) == UNION {[1..k -> S] : k \in 0..n}

\* file texts: up to MaxLines lines joined by line breaks ("" is the empty file)
Sources == {Join(ls, "\n") : ls \in SeqsUpTo(SourceLines, MaxLines)}

-----------------------------------------------------------------------------
(* The rule engine as a state machine: one GasAnalyzer built on the file,    *)
(* analyze_all calls on it, and analyze_gas calls (each on its own analyzer) *)

GasInit ==
    /\ contract_code \in Sources
    /\ lines = GasAnalyzerLines(contract_code)
    /\ optimizations = <<>>
    /\ runs = 0
    /\ returned = <<>>
    /\ first_returned = <<>>
    /\ gas_results = <<>>
    /\ snippet = "" /\ snippet_args = <<0, 0>> /\ snippet_reads = <<>>
    /\ vulnerabilities = <<>> /\ gas_optimizations = <<>> /\ report = <<>>
    /\ pc = "idle"
    /\ command = "" /\ cli_contract_path = ContractPath /\ calls = <<>>

\* analyzer.analyze_all()
AnalyzeAll ==
    /\ pc = "idle"
    /\ runs + Len(gas_results) < MaxRuns
    /\ calls' = calls \o ChecksCompleted(lines)
    /\ IF ChecksCompleted(lines) = CheckMethods
       THEN /\ optimizations' = analyze_all(lines, ContractPath, optimizations)
            /\ returned' = optimizations'
            /\ first_returned' = IF runs = 0 THEN optimizations' ELSE first_returned
            /\ pc' = "idle"
       ELSE \* the exception reaches the caller; the findings of the checks
            \* that completed stay in self.optimizations
            /\ optimizations' = RunChecks(RulesOf(ChecksCompleted(lines)), lines,
                                          ContractPath, optimizations)
            /\ pc' = "raised"
            /\ UNCHANGED <<returned, first_returned>>
    /\ runs' = runs + 1
    /\ UNCHANGED <<contract_code, lines, gas_results>>

\* analyze_gas(contract_path)
AnalyzeGas ==
    /\ pc = "idle"
    /\ runs + Len(gas_results) < MaxRuns
    /\ calls' = calls \o ChecksCompleted(GasAnalyzerLines(contract_code))
    /\ IF ChecksCompleted(GasAnalyzerLines(contract_code)) = CheckMethods
       THEN /\ gas_results' = Append(gas_results, analyze_gas(contract_code, ContractPath))
            /\ pc' = "idle"
       ELSE /\ pc' = "raised"
            /\ UNCHANGED gas_results
    /\ UNCHANGED <<contract_code, lines, optimizations, runs, returned, first_returned>>

GasNext ==
    \/ AnalyzeAll /\ UNCHANGED <<snippetVars, reportVars, command, cli_contract_path>>
    \/ AnalyzeGas /\ UNCHANGED <<snippetVars, reportVars, command, cli_contract_path>>

SpecGas == GasInit /\ [][GasNext]_vars

-----------------------------------------------------------------------------
(* _get_code_snippet called on its own *)

SnippetTexts == {"}", "return y;"}

SnippetSources == {Join(ls, "\n") : ls \in SeqsUpTo(SnippetTexts, MaxSnippetLines)}

SnippetInit ==
    /\ contract_code \in SnippetSources
    /\ lines = GasAnalyzerLines(contract_code)
    /\ optimizations = <<>> /\ runs = 0 /\ returned = <<>>
    /\ first_returned = <<>> /\ gas_results = <<>>
    /\ snippet = "" /\ snippet_args = <<0, 0>> /\ snippet_reads = <<>>
    /\ vulnerabilities = <<>> /\ gas_optimizations = <<>> /\ report = <<>>
    /\ pc = "idle"
    /\ command = "" /\ cli_contract_path = ContractPath /\ calls = <<>>

\* self._get_code_snippet(line_index, context)
GetCodeSnippet(line_index, context) ==
    /\ pc = "idle"
    /\ snippet' = _get_code_snippet(lines, line_index, context)
    /\ snippet_reads' = SnippetRange(lines, line_index, context)
    /\ snippet_args' = <<line_index, context>>
    /\ pc' = "snippet"
    /\ UNCHANGED <<gasVars, reportVars, cliVars>>

SnippetNext ==
    \E line_index \in 0..(Len(lines) - 1), context \in 0..MaxContext :
        GetCodeSnippet(line_index, context)

SpecSnippet == SnippetInit /\ [][SnippetNext]_vars

-----------------------------------------------------------------------------
(* markdown_generator.py: MarkdownReportGenerator                            *)
(*                                                                           *)
(* A document is the sequence of its blocks, in reading order: a heading, a  *)
(* table row, a line of text or a rendered finding.  `item` holds the        *)
(* finding a block renders (all its fields), `n` the number the block        *)
(* prints.  Emoji prefixes of headings are left out of `text`.               *)

Block(kind, text, n, item) == [kind |-> kind, text |-> text, n |-> n, item |-> item]

\* Severity, in the order _generate_vulnerability_section walks it
Severity == <<"Critical", "High", "Medium", "Low", "Informational">>

Vulnerability(name, severity, line_number) ==
    [name |-> name, severity |-> severity, line_number |-> line_number]

TopConcerns == 5

ContractName == "Token"

_generate_header(contract_path, contract_name) ==
    <<Block("h1", "Smart Contract Security Audit Report", 0, <<>>),
      Block("meta", "Contract: " \o contract_name, 0, <<>>),
      Block("meta", "File: " \o contract_path, 0, <<>>)>>

\* sum(1 for v in vulnerabilities if v.severity == sev)
CountSeverity(vulns, sev) == Len(SelectSeq(vulns, LAMBDA v : v.severity = sev))

\* RiskAssessment with the High test made before the Critical test
RiskAssessmentHighFirst(critical, high, medium, low) ==
    IF high > 0
    THEN [risk_level |-> "**HIGH RISK**",
          recommendation |-> "Requires immediate attention before deployment"]
    ELSE IF critical > 0
    THEN [risk_level |-> "**CRITICAL RISK**",
          recommendation |-> "**NOT RECOMMENDED** for production deployment"]
    ELSE IF medium > 0
    THEN [risk_level |-> "**MEDIUM RISK**",
          recommendation |-> "Address issues before production deployment"]
    ELSE IF low > 0
    THEN [risk_level |-> "**LOW RISK**",
          recommendation |-> "Minor improvements recommended"]
    ELSE [risk_level |-> "**MINIMAL RISK**",
          recommendation |-> "Contract appears secure"]

\* RiskAssessment with `critical == 1` for `critical > 0`
RiskAssessmentExactlyOne(critical, high, medium, low) ==
    IF critical = 1
    THEN [risk_level |-> "**CRITICAL RISK**",
          recommendation |-> "**NOT RECOMMENDED** for production deployment"]
    ELSE IF high > 0
    THEN [risk_level |-> "**HIGH RISK**",
          recommendation |-> "Requires immediate attention before deployment"]
    ELSE IF medium > 0
    THEN [risk_level |-> "**MEDIUM RISK**",
          recommendation |-> "Address issues before production deployment"]
    ELSE IF low > 0
    THEN [risk_level |-> "**LOW RISK**",
          recommendation |-> "Minor improvements recommended"]
    ELSE [risk_level |-> "**MINIMAL RISK**",
          recommendation |-> "Contract appears secure"]

\* "Determine overall risk": the if/elif chain of _generate_executive_summary
RiskAssessment(critical, high, medium, low) ==
    IF critical > 0
    THEN [risk_level |-> "**CRITICAL RISK**",
          recommendation |-> "**NOT RECOMMENDED** for production deployment"]
    ELSE IF high > 0
    THEN [risk_level |-> "**HIGH RISK**",
          recommendation |-> "Requires immediate attention before deployment"]
    ELSE IF medium > 0
    THEN [risk_level |-> "**MEDIUM RISK**",
          recommendation |-> "Address issues before production deployment"]
    ELSE IF low > 0
    THEN [risk_level |-> "**LOW RISK**",
          recommendation |-> "Minor improvements recommended"]
    ELSE [risk_level |-> "**MINIMAL RISK**",
          recommendation |-> "Contract appears secure"]

ConcernBlocks(vulns) ==
    [i \in 1..Len(vulns) |->
        Block("concern", vulns[i].name, vulns[i].line_number, <<vulns[i]>>)]

\* _generate_key_concerns without the [:5] slice
_generate_key_concerns_unlimited(vulns) ==
    LET critical_and_high ==
            SelectSeq(vulns, LAMBDA v : v.severity \in {"Critical", "High"})
    IN IF critical_and_high = <<>>
       THEN <<Block("text", "No critical or high severity issues found.", 0, <<>>)>>
       ELSE ConcernBlocks(critical_and_high)

_generate_key_concerns(vulns) ==
    LET critical_and_high ==
            SelectSeq(vulns, LAMBDA v : v.severity \in {"Critical", "High"})
        top == IF Len(critical_and_high) < TopConcerns
               THEN Len(critical_and_high) ELSE TopConcerns
    IN IF critical_and_high = <<>>
       THEN <<Block("text", "No critical or high severity issues found.", 0, <<>>)>>
       ELSE ConcernBlocks(SubSeq(critical_and_high, 1, top))

_generate_executive_summary(vulns, gas) ==
    LET critical == CountSeverity(vulns, "Critical")
        high == CountSeverity(vulns, "High")
        medium == CountSeverity(vulns, "Medium")
        low == CountSeverity(vulns, "Low")
        info == CountSeverity(vulns, "Informational")
        risk == RiskAssessment(critical, high, medium, low)
    IN <<Block("h2", "Executive Summary", 0, <<>>),
         Block("h3", "Overall Risk Assessment", 0, <<>>),
         Block("risk", risk.risk_level, 0, <<>>),
         Block("recommendation", risk.recommendation, 0, <<>>),
         Block("h3", "Findings Overview", 0, <<>>),
         Block("count", "Critical", critical, <<>>),
         Block("count", "High", high, <<>>),
         Block("count", "Medium", medium, <<>>),
         Block("count", "Low", low, <<>>),
         Block("count", "Informational", info, <<>>),
         Block("count", "Total Vulnerabilities", Len(vulns), <<>>),
         Block("count", "Gas Optimizations", Len(gas), <<>>),
         Block("h3", "Key Concerns", 0, <<>>)>>
       \o _generate_key_concerns(vulns)

\* the heading of a severity group and its numbered findings
_generate_severity_section(severity, vulns) ==
    <<Block("severity_group", severity, Len(vulns), <<>>)>>
    \o [i \in 1..Len(vulns) |-> Block("vuln", vulns[i].name, i, <<vulns[i]>>)]

SecurityIntro ==
    <<Block("h2", "Security Findings", 0, <<>>),
      Block("h3", "Detailed Vulnerability Analysis", 0, <<>>)>>

\* _generate_vulnerability_section rendering the findings in input order, a
\* group per finding
_generate_vulnerability_section_ungrouped(vulns) ==
    IF vulns = <<>>
    THEN <<Block("h2", "Security Findings", 0, <<>>),
           Block("h3", "No Vulnerabilities Detected", 0, <<>>)>>
    ELSE LET each(i) == _generate_severity_section(vulns[i + 1].severity, <<vulns[i + 1]>>)
         IN SecurityIntro \o FlatMap(each, 0, Len(vulns))

\* _generate_vulnerability_section dropping a finding equal to the one before
\* it in its group
_generate_vulnerability_section_dedup(vulns) ==
    IF vulns = <<>>
    THEN <<Block("h2", "Security Findings", 0, <<>>),
           Block("h3", "No Vulnerabilities Detected", 0, <<>>)>>
    ELSE LET group(k) ==
                 LET severity_vulns ==
                         SelectSeq(vulns, LAMBDA v : v.severity = Severity[k + 1])
                     keep == {i \in 1..Len(severity_vulns) :
                                 i = 1 \/ severity_vulns[i] # severity_vulns[i - 1]}
                     pick(i) == IF i + 1 \in keep THEN <<severity_vulns[i + 1]>> ELSE <<>>
                 IN IF severity_vulns # <<>>
                    THEN _generate_severity_section(
                             Severity[k + 1], FlatMap(pick, 0, Len(severity_vulns)))
                    ELSE <<>>
         IN SecurityIntro \o FlatMap(group, 0, Len(Severity))

_generate_vulnerability_section(vulns) ==
    IF vulns = <<>>
    THEN <<Block("h2", "Security Findings", 0, <<>>),
           Block("h3", "No Vulnerabilities Detected", 0, <<>>)>>
    ELSE LET group(k) ==
                 LET severity_vulns ==
                         SelectSeq(vulns, LAMBDA v : v.severity = Severity[k + 1])
                 IN IF severity_vulns # <<>>
                    THEN _generate_severity_section(Severity[k + 1], severity_vulns)
                    ELSE <<>>
         IN SecurityIntro \o FlatMap(group, 0, Len(Severity))

\* CategoryKeys with a category moved to the end each time it is seen again
RECURSIVE CategoryKeysLastSeen(_, _, _)
CategoryKeysLastSeen(opts, i, keys) ==
    IF i > Len(opts) THEN keys
    ELSE CategoryKeysLastSeen(opts, i + 1,
             Append(SelectSeq(keys, LAMBDA c : c # opts[i].category),
                    opts[i].category))

\* keys of the `categories` dict, in insertion order
RECURSIVE CategoryKeys(_, _, _)
CategoryKeys(opts, i, keys) ==
    IF i > Len(opts) THEN keys
    ELSE IF \E k \in 1..Len(keys) : keys[k] = opts[i].category
    THEN CategoryKeys(opts, i + 1, keys)
    ELSE CategoryKeys(opts, i + 1, Append(keys, opts[i].category))

_generate_gas_section(opts) ==
    IF opts = <<>>
    THEN <<Block("h2", "Gas Optimization", 0, <<>>),
           Block("h3", "No Major Gas Optimizations Found", 0, <<>>)>>
    ELSE LET categories == CategoryKeys(opts, 1, <<>>)
             group(k) ==
                 LET category == categories[k + 1]
                     members == SelectSeq(opts, LAMBDA o : o.category = category)
                 IN <<Block("category_group", category, Len(members), <<>>)>>
                    \o [i \in 1..Len(members) |->
                           Block("opt", members[i].description, i, <<members[i]>>)]
         IN <<Block("h2", "Gas Optimization Opportunities", Len(opts), <<>>)>>
            \o FlatMap(group, 0, Len(categories))

_generate_immediate_actions(vulns) ==
    LET critical_high ==
            SelectSeq(vulns, LAMBDA v : v.severity \in {"Critical", "High"})
    IN IF critical_high = <<>>
       THEN <<Block("text", "No critical issues requiring immediate action.", 0, <<>>)>>
       ELSE [i \in 1..Len(critical_high) |->
                Block("action", critical_high[i].name, i, <<critical_high[i]>>)]

_generate_recommendations(vulns) ==
    <<Block("h2", "Recommendations", 0, <<>>),
      Block("h3", "Immediate Actions Required", 0, <<>>)>>
    \o _generate_immediate_actions(vulns)
    \o <<Block("h3", "Best Practices", 0, <<>>),
         Block("h3", "Security Resources", 0, <<>>)>>

_generate_footer ==
    <<Block("h2", "Disclaimer", 0, <<>>),
      Block("h3", "Limitations", 0, <<>>),
      Block("h3", "Next Steps", 0, <<>>)>>

\* generate_report leaving out a findings section whose list is empty
generate_report_skipping_empty(vulns, gas) ==
    _generate_header(ContractPath, ContractName)
    \o _generate_executive_summary(vulns, gas)
    \o (IF vulns = <<>> THEN <<>> ELSE _generate_vulnerability_section(vulns))
    \o (IF gas = <<>> THEN <<>> ELSE _generate_gas_section(gas))
    \o _generate_recommendations(vulns)
    \o _generate_footer

\* generate_report: '\n\n'.join of the six sections
generate_report(vulns, gas) ==
    _generate_header(ContractPath, ContractName)
    \o _generate_executive_summary(vulns, gas)
    \o _generate_vulnerability_section(vulns)
    \o _generate_gas_section(gas)
    \o _generate_recommendations(vulns)
    \o _generate_footer

-----------------------------------------------------------------------------
(* The report generator as a state machine: the caller holds two lists and   *)
(* calls generate_report on them.                                            *)

MaxFindings == 3
MaxConcernInputs == 6

VulnNames == {"Reentrancy", "Unchecked Call"}

ReportVulns ==
    {Vulnerability(name, Severity[k], 1) : name \in VulnNames, k \in 1..Len(Severity)}

ReportOpts ==
    {GasOptimization("Loop Optimization", "Array length read in every loop iteration",
                     ContractPath, 1, ">>> 1: for", "Cache array length", "~3 gas per iteration"),
     GasOptimization("Loop Optimization", "Array length read in every loop iteration",
                     ContractPath, 2, ">>> 2: for", "Cache array length", "~3 gas per iteration"),
     GasOptimization("Error Handling", "require() with string message is gas inefficient",
                     ContractPath, 1, ">>> 1: require", "Use custom errors", "~50 gas")}

\* pairs of lists holding MaxFindings findings at most between them
MixedInputs ==
    UNION {{<<v, g>> : v \in [1..k -> ReportVulns],
                       g \in SeqsUpTo(ReportOpts, MaxFindings - k)} :
           k \in 0..MaxFindings}

ConcernVulns ==
    {Vulnerability("Reentrancy", "Critical", 1),
     Vulnerability("Unchecked Call", "High", 1),
     Vulnerability("Reentrancy", "Medium", 1)}

\* longer security lists, up to MaxConcernInputs findings of three kinds
LongInputs ==
    UNION {{<<v, <<>>>> : v \in [1..k -> ConcernVulns]} :
           k \in (MaxFindings + 1)..MaxConcernInputs}

ReportInit ==
    /\ \E in \in MixedInputs \cup LongInputs :
          /\ vulnerabilities = in[1]
          /\ gas_optimizations = in[2]
    /\ report = <<>>
    /\ pc = "start"
    /\ contract_code = "" /\ lines = <<"">> /\ optimizations = <<>> /\ runs = 0
    /\ returned = <<>> /\ first_returned = <<>> /\ gas_results = <<>>
    /\ snippet = "" /\ snippet_args = <<0, 0>> /\ snippet_reads = <<>>
    /\ command = "" /\ cli_contract_path = ContractPath /\ calls = <<>>

\* report = generator.generate_report(vulnerabilities, gas_optimizations)
GenerateReport ==
    /\ pc = "start"
    /\ report' = generate_report(vulnerabilities, gas_optimizations)
    /\ pc' = "rendered"
    /\ UNCHANGED <<vulnerabilities, gas_optimizations>>
    /\ UNCHANGED <<gasVars, snippetVars, cliVars>>

ReportNext == GenerateReport

SpecReport == ReportInit /\ [][ReportNext]_vars

-----------------------------------------------------------------------------
(* Single check methods called on a GasAnalyzer, in any order                *)

MaxRuleLines == 3
MaxRuleFindings == 2

VisibilityLines ==
    {"function f() public {",
     "function g() external {",
     "function constructorOf() public {",
     "this.f();",
     "f();"}

ImmutableLines ==
    {"uint256 public x;",
     "uint256 public x = 1;",
     "address public constant x = o;",
     "x = 2;"}

StorageLines ==
    {"for (;;) {",
     "if (c) { y = 1; }",
     "}",
     "users[i] = 1;"}

RuleSources ==
    {Join(ls, "\n") :
        ls \in SeqsUpTo(VisibilityLines, MaxRuleLines)
               \cup SeqsUpTo(ImmutableLines, MaxRuleLines)
               \cup SeqsUpTo(StorageLines, MaxRuleLines)}

RulesInit ==
    /\ contract_code \in RuleSources
    /\ lines = GasAnalyzerLines(contract_code)
    /\ optimizations = <<>>
    /\ pc = "idle"
    /\ runs = 0 /\ returned = <<>> /\ first_returned = <<>> /\ gas_results = <<>>
    /\ snippet = "" /\ snippet_args = <<0, 0>> /\ snippet_reads = <<>>
    /\ vulnerabilities = <<>> /\ gas_optimizations = <<>> /\ report = <<>>
    /\ command = "" /\ cli_contract_path = ContractPath /\ calls = <<>>

\* a call of one check method: `result` is self.optimizations after it
CallCheck(method, result) ==
    /\ pc # "raised"
    /\ Len(optimizations) < MaxRuleFindings
    /\ IF RaisedBy(method, lines)
       THEN pc' = "raised" /\ UNCHANGED optimizations
       ELSE pc' = method /\ optimizations' = result
    /\ UNCHANGED <<contract_code, lines, runs, returned, first_returned, gas_results>>
    /\ UNCHANGED <<snippetVars, reportVars, cliVars>>

\* analyzer.check_storage_vs_memory()
CheckStorageVsMemory ==
    CallCheck("check_storage_vs_memory",
              check_storage_vs_memory(lines, ContractPath, optimizations))

\* analyzer.check_public_vs_external()
CheckPublicVsExternal ==
    CallCheck("check_public_vs_external",
              check_public_vs_external(lines, ContractPath, optimizations))

\* analyzer.check_constant_immutable()
CheckConstantImmutable ==
    CallCheck("check_constant_immutable",
              check_constant_immutable(lines, ContractPath, optimizations))

RulesNext ==
    \/ CheckStorageVsMemory
    \/ CheckPublicVsExternal
    \/ CheckConstantImmutable

SpecRules == RulesInit /\ [][RulesNext]_vars

-----------------------------------------------------------------------------
(* cli.py: the commands `scan` and `quick`, each run once on an existing     *)
(* file (click.Path(exists=True)) holding contract_code                      *)

\* str.endswith(suffix)
EndsWith(text, suffix) ==
    /\ Len(suffix) <= Len(text)
    /\ SubSeq(text, Len(text) - Len(suffix) + 1, Len(text)) = suffix

\* values of the contract_path argument
CliPaths == {ContractPath, "Token.txt", "Token.sol.bak", "Token.SOL"}

\* contents of the file at contract_path
CliSources ==
    {"",
     "uint256 public x = 1;",
     "function f() public {",
     "require(a && msg.sender == o, \"e\");",
     "for (i; i < a.length; i++) {"}

\* lists analyze_contract (scanner/vulnerability_detector.py) may return
DetectorResults ==
    {<<>>,
     <<Vulnerability("Reentrancy", "Critical", 1)>>,
     <<Vulnerability("Unchecked Call", "Low", 1)>>}

CliInit ==
    /\ command \in {"scan", "quick"}
    /\ cli_contract_path \in CliPaths
    /\ contract_code \in CliSources
    /\ calls = <<>>
    /\ pc = "invoked"
    /\ lines = <<"">> /\ optimizations = <<>> /\ runs = 0
    /\ returned = <<>> /\ first_returned = <<>> /\ gas_results = <<>>
    /\ snippet = "" /\ snippet_args = <<0, 0>> /\ snippet_reads = <<>>
    /\ vulnerabilities = <<>> /\ gas_optimizations = <<>> /\ report = <<>>

\* scan(contract_path, output, format, verbose)
Scan ==
    /\ pc = "invoked"
    /\ command = "scan"
    /\ IF ~EndsWith(cli_contract_path, ".sol")
       THEN /\ pc' = "rejected"
            /\ UNCHANGED <<calls, reportVars>>
       ELSE \E found \in DetectorResults :
              /\ vulnerabilities' = found
              /\ gas_optimizations' = analyze_gas(contract_code, cli_contract_path)
              /\ report' = generate_report(vulnerabilities', gas_optimizations')
              /\ calls' = <<"analyze_contract", "analyze_gas",
                            "generate_markdown_report", "display_results">>
              /\ pc' = "done"
    /\ UNCHANGED <<gasVars, snippetVars, command, cli_contract_path>>

\* quick(contract_path)
Quick ==
    /\ pc = "invoked"
    /\ command = "quick"
    /\ \E found \in DetectorResults :
         /\ vulnerabilities' = found
         /\ gas_optimizations' = analyze_gas(contract_code, cli_contract_path)
         /\ calls' = <<"analyze_contract", "analyze_gas", "display_results">>
         /\ pc' = "done"
    /\ UNCHANGED <<gasVars, snippetVars, command, cli_contract_path, report>>

CliNext ==
    \/ Scan
    \/ Quick

SpecCli == CliInit /\ [][CliNext]_vars

-----------------------------------------------------------------------------
(* Properties of the rule engine *)

\* the rule a finding comes from, read off its category and description
RuleOf(o) ==
    CASE o.category = "Storage Access" -> "storage_vs_memory"
      [] o.category = "Storage Packing" -> "state_variable_packing"
      [] o.category = "Loop Optimization"
           /\ o.description = "Array length read in every loop iteration" -> "loop_length"
      [] o.category = "Loop Optimization"
           /\ o.description # "Array length read in every loop iteration" -> "loop_increment"
      [] o.category = "Error Handling" -> "require_vs_custom_errors"
      [] o.category = "Unnecessary Variable" -> "unnecessary_variables"
      [] o.category = "Function Visibility" -> "public_vs_external"
      [] o.category = "State Variable" -> "constant_immutable"
      [] o.category = "Short-Circuit Evaluation" -> "short_circuit_evaluation"

\* position of a rule in the declaration order the specification lists
RuleRank(r) ==
    CASE r = "storage_vs_memory" -> 1
      [] r = "state_variable_packing" -> 2
      [] r = "loop_length" -> 3
      [] r = "loop_increment" -> 4
      [] r = "require_vs_custom_errors" -> 5
      [] r = "unnecessary_variables" -> 6
      [] r = "public_vs_external" -> 7
      [] r = "constant_immutable" -> 8
      [] r = "short_circuit_evaluation" -> 9

\* position of the check method a rule belongs to in analyze_all's call order
MethodRank(r) ==
    IF r \in {"loop_length", "loop_increment"} THEN 3 ELSE RuleRank(r)

\* findings sorted by rule, then by line
RuleOrdered(out) ==
    \A i, j \in 1..Len(out) :
        i < j =>
            /\ RuleRank(RuleOf(out[i])) <= RuleRank(RuleOf(out[j]))
            /\ RuleOf(out[i]) = RuleOf(out[j])
                   => out[i].line_number < out[j].line_number

\* findings sorted by check method, then by line, then by rule
MethodOrdered(out) ==
    \A i, j \in 1..Len(out) :
        i < j =>
            /\ MethodRank(RuleOf(out[i])) <= MethodRank(RuleOf(out[j]))
            /\ MethodRank(RuleOf(out[i])) = MethodRank(RuleOf(out[j]))
                   => \/ out[i].line_number < out[j].line_number
                      \/ /\ out[i].line_number = out[j].line_number
                         /\ RuleRank(RuleOf(out[i])) < RuleRank(RuleOf(out[j]))

\* C5 (as stated): the output of a first analyze_all call, and of every
\* analyze_gas call, is the concatenation of the nine rules' outputs in
\* declaration order, each in ascending line order, so every loop-length
\* finding precedes every increment-style finding.
C5_NineRuleOrder ==
    /\ runs >= 1 => RuleOrdered(first_returned)
    /\ \A k \in 1..Len(gas_results) : RuleOrdered(gas_results[k])

\* C5 (amended): the output of a first analyze_all call, and of every
\* analyze_gas call, is ordered by check method in analyze_all's call order
\* (storage, packing, loop optimizations, require, unnecessary variables,
\* visibility, constant/immutable, short circuit); within one method by
\* ascending line; check_loop_optimizations emits, line by line, the
\* length finding of a line and then its increment finding.
C5_MethodOrder ==
    /\ runs >= 1 => MethodOrdered(first_returned)
    /\ \A k \in 1..Len(gas_results) : MethodOrdered(gas_results[k])

\* two offending loop headers: the increment finding of the first header
\* precedes the length finding of the second
C5_Witness ==
    /\ runs = 1
    /\ \E i, j \in 1..Len(first_returned) :
        /\ i < j
        /\ RuleOf(first_returned[i]) = "loop_increment"
        /\ RuleOf(first_returned[j]) = "loop_length"
        /\ first_returned[i].line_number < first_returned[j].line_number

\* C6: every run of the engine over the same source returns what the first
\* run returned: each analyze_all call on the analyzer returns the value the
\* first call returned, and each analyze_gas call returns the value the first
\* analyze_gas call returned, which is what one pass of the rules over the
\* lines yields.
C6_RepeatedRunsAgree ==
    /\ runs >= 1 => returned = first_returned
    /\ \A k \in 1..Len(gas_results) : gas_results[k] = gas_results[1]
    /\ runs >= 1 /\ gas_results # <<>> => returned = gas_results[1]

\* C8: for every rule R, the engine without R returns the full output with
\* R's findings deleted, the other findings unchanged and in the same order.
C8_RuleIndependence ==
    runs >= 1 =>
        \A R \in AllRules :
            RunChecks(AllRules \ {R}, lines, ContractPath, <<>>)
                = SelectSeq(first_returned, LAMBDA o : RuleOf(o) # R)

\* a first run whose output holds findings of at least three rules
C8_Witness ==
    /\ runs = 1
    /\ Cardinality({RuleOf(first_returned[i]) : i \in 1..Len(first_returned)}) >= 3

\* C7: a snippet reads and prints exactly the lines with index in
\* [max(0, line_index - context), min(line_count - 1, line_index + context)],
\* all inside [0, line_count); each printed line carries its 1-based number,
\* and the target line alone carries the ">>> " marker.
C7_SnippetBounds ==
    pc = "snippet" =>
        LET line_index == snippet_args[1]
            context == snippet_args[2]
            lo == IF line_index - context > 0 THEN line_index - context ELSE 0
            hi == IF line_index + context < Len(lines) - 1
                  THEN line_index + context ELSE Len(lines) - 1
            printed == Split(snippet, "\n")
        IN /\ \A k \in 1..Len(snippet_reads) :
                /\ snippet_reads[k] >= 0 /\ snippet_reads[k] < Len(lines)
                /\ snippet_reads[k] >= lo /\ snippet_reads[k] <= hi
           /\ Len(printed) = hi - lo + 1
           /\ \A k \in 1..Len(printed) :
                printed[k] = (IF lo + k - 1 = line_index THEN ">>> " ELSE "    ")
                                 \o ToString(lo + k) \o ": " \o lines[lo + k]

\* a snippet taken at the last line of a file of several lines, with a context
\* that reaches past both ends
C7_Witness ==
    /\ pc = "snippet"
    /\ Len(lines) >= 2
    /\ snippet_args[1] = Len(lines) - 1
    /\ snippet_args[1] + snippet_args[2] >= Len(lines)
    /\ snippet_args[1] - snippet_args[2] < 0

\* the finding rests on a match of its rule's pattern in its line, and on the
\* line after it where the rule reads that one
RestsOnMatch(lns, o) ==
    LET line == LineAt(lns, o.line_number - 1)
    IN CASE o.category = "Unnecessary Variable" ->
                SearchUintAssign(line).matched /\ o.line_number < Len(lns)
         [] o.category = "Function Visibility" ->
                _extract_function_name(line) # ""
         [] o.category = "State Variable" ->
                SearchPublicVar(line).matched
         [] OTHER -> TRUE

\* C13: on every source text no check method raises, analyze_all runs all its
\* check methods to completion each time it is called, and a finding is
\* emitted only where its rule's pattern matched and the lines it reads exist.
C13_RulesNeverFail ==
    /\ pc # "raised"
    /\ \A k \in 1..Len(CheckMethods) : ~RaisedBy(CheckMethods[k], lines)
    /\ Len(calls) = Len(CheckMethods) * (runs + Len(gas_results))
    /\ \A j \in 1..Len(calls) :
         calls[j] = CheckMethods[((j - 1) % Len(CheckMethods)) + 1]
    /\ \A k \in 1..Len(optimizations) : RestsOnMatch(lines, optimizations[k])
    /\ \A g \in 1..Len(gas_results) :
         \A k \in 1..Len(gas_results[g]) : RestsOnMatch(lines, gas_results[g][k])

\* C13, without its clause on findings: no check method raises and every call
\* of analyze_all runs the eight check methods to completion.
C13_NoCheckRaises ==
    /\ pc # "raised"
    /\ \A k \in 1..Len(CheckMethods) : ~RaisedBy(CheckMethods[k], lines)
    /\ Len(calls) = Len(CheckMethods) * (runs + Len(gas_results))

\* the finding names a line of the source and the analyzer's contract path
WellLocated(lns, o) ==
    /\ 1 <= o.line_number
    /\ o.line_number <= Len(lns)
    /\ o.location = ContractPath

\* C17: every finding the engine has emitted, whatever rules have run and
\* however often, has 1 <= line_number <= number of lines and the analyzer's
\* contract path as location, and self.lines is still the split of the text
\* the analyzer was built on.
C17_FindingsWellLocated ==
    /\ lines = GasAnalyzerLines(contract_code)
    /\ \A k \in 1..Len(optimizations) : WellLocated(lines, optimizations[k])
    /\ \A k \in 1..Len(returned) : WellLocated(lines, returned[k])
    /\ \A g \in 1..Len(gas_results) :
         \A k \in 1..Len(gas_results[g]) : WellLocated(lines, gas_results[g][k])
    /\ \A r \in AllRules :
         LET alone == RunChecks({r}, lines, ContractPath, <<>>)
         IN \A k \in 1..Len(alone) : WellLocated(lines, alone[k])

\* analyze_all has run on a two-line file and emitted a Storage Packing
\* finding and a finding on the last line
C17_Witness ==
    /\ runs > 0
    /\ Len(lines) = 2
    /\ \E k \in 1..Len(optimizations) : optimizations[k].category = "Storage Packing"
    /\ \E k \in 1..Len(optimizations) : optimizations[k].line_number = Len(lines)

-----------------------------------------------------------------------------
(* Properties of the report generator *)

SeverityRank(sev) == CHOOSE k \in 1..Len(Severity) : Severity[k] = sev

\* Minimal < Low < Medium < High < Critical, read off the rendered risk level
TierRank(risk_level) ==
    CASE risk_level = "**MINIMAL RISK**" -> 0
      [] risk_level = "**LOW RISK**" -> 1
      [] risk_level = "**MEDIUM RISK**" -> 2
      [] risk_level = "**HIGH RISK**" -> 3
      [] risk_level = "**CRITICAL RISK**" -> 4

OfKind(doc, kinds) == SelectSeq(doc, LAMBDA b : b.kind \in kinds)

Texts(blocks) == [i \in 1..Len(blocks) |-> blocks[i].text]

HasSeverity(vulns, sev) == \E i \in 1..Len(vulns) : vulns[i].severity = sev

InsertAt(seq, p, x) == SubSeq(seq, 1, p) \o <<x>> \o SubSeq(seq, p + 1, Len(seq))

\* the findings rendered under the group heading `key`: the entries that
\* follow the heading up to the next block that is not an entry
GroupItems(doc, group_kind, entry_kind, key) ==
    LET H == {i \in 1..Len(doc) : doc[i].kind = group_kind /\ doc[i].text = key}
    IN IF H = {} THEN <<>>
       ELSE LET h == Min(H)
                stop == Min({j \in (h + 1)..(Len(doc) + 1) :
                                j = Len(doc) + 1 \/ doc[j].kind # entry_kind})
            IN [k \in 1..(stop - h - 1) |-> doc[h + k].item[1]]

\* C1: the risk level of the Executive Summary is Critical if some finding is
\* Critical, else High if some is High, else Medium, else Low, else Minimal,
\* and the deployment recommendation is that tier's sentence.
C1_RiskTierByPresence ==
    pc = "rendered" =>
        LET expected ==
                IF HasSeverity(vulnerabilities, "Critical")
                THEN <<"**CRITICAL RISK**", "**NOT RECOMMENDED** for production deployment">>
                ELSE IF HasSeverity(vulnerabilities, "High")
                THEN <<"**HIGH RISK**", "Requires immediate attention before deployment">>
                ELSE IF HasSeverity(vulnerabilities, "Medium")
                THEN <<"**MEDIUM RISK**", "Address issues before production deployment">>
                ELSE IF HasSeverity(vulnerabilities, "Low")
                THEN <<"**LOW RISK**", "Minor improvements recommended">>
                ELSE <<"**MINIMAL RISK**", "Contract appears secure">>
        IN /\ Texts(OfKind(report, {"risk"})) = <<expected[1]>>
           /\ Texts(OfKind(report, {"recommendation"})) = <<expected[2]>>

\* a report on one Critical finding and findings of lower tiers
C1_Witness ==
    /\ pc = "rendered"
    /\ CountSeverity(vulnerabilities, "Critical") = 1
    /\ HasSeverity(vulnerabilities, "Low")
    /\ HasSeverity(vulnerabilities, "High")

\* C2: inserting one more Critical finding at any position of the security
\* list never lowers the risk tier of the report.
C2_CriticalNeverLowers ==
    pc = "rendered" =>
        \A p \in 0..Len(vulnerabilities), name \in VulnNames :
            LET extended == InsertAt(vulnerabilities, p, Vulnerability(name, "Critical", 1))
                summary == _generate_executive_summary(extended, gas_optimizations)
            IN TierRank(OfKind(summary, {"risk"})[1].text)
                   >= TierRank(OfKind(report, {"risk"})[1].text)

\* a report on a list that already holds a Critical finding among others
C2_Witness ==
    /\ pc = "rendered"
    /\ Len(vulnerabilities) >= 3
    /\ vulnerabilities[2].severity = "Critical"
    /\ OfKind(report, {"risk"})[1].text = "**CRITICAL RISK**"

\* C3: for a non-empty security list, the Security Findings section lists the
\* findings grouped by severity in the order Critical, High, Medium, Low,
\* Informational: no finding of a lower severity comes before one of a higher
\* severity, every finding stands under the heading of its severity, and a
\* severity has a heading (one) exactly when it has a finding.
C3_SeverityOrder ==
    pc = "rendered" /\ vulnerabilities # <<>> =>
        LET sec == OfKind(report, {"severity_group", "vuln"})
            heads == OfKind(report, {"severity_group"})
        IN /\ \A i, j \in 1..Len(sec) :
                i < j /\ sec[i].kind = "vuln" /\ sec[j].kind = "vuln" =>
                    SeverityRank(sec[i].item[1].severity)
                        <= SeverityRank(sec[j].item[1].severity)
           /\ sec[1].kind = "severity_group"
           /\ \A i \in 2..Len(sec) :
                sec[i].kind = "vuln" =>
                    sec[i].item[1].severity
                        = (IF sec[i - 1].kind = "vuln"
                           THEN sec[i - 1].item[1].severity ELSE sec[i - 1].text)
           /\ \A i, j \in 1..Len(heads) :
                i < j => SeverityRank(heads[i].text) < SeverityRank(heads[j].text)
           /\ \A k \in 1..Len(Severity) :
                HasSeverity(vulnerabilities, Severity[k])
                    <=> \E i \in 1..Len(heads) : heads[i].text = Severity[k]

\* a report on a list that names a lower severity before a higher one
C3_Witness ==
    /\ pc = "rendered"
    /\ Len(vulnerabilities) >= 3
    /\ vulnerabilities[1].severity = "Informational"
    /\ vulnerabilities[2].severity = "Critical"
    /\ vulnerabilities[3].severity = "Medium"

\* C4: the document holds the six sections Header, Executive Summary,
\* Security Findings, Gas, Recommendations, Footer, each once, in that order,
\* whatever the two lists; an empty security list gives the "No
\* Vulnerabilities Detected" notice and an empty efficiency list the "No
\* Major Gas Optimizations Found" notice.
C4_SixSections ==
    pc = "rendered" =>
        LET heads == Texts(OfKind(report, {"h1", "h2"}))
            notices == Texts(OfKind(report, {"h3"}))
            has(t) == \E i \in 1..Len(notices) : notices[i] = t
        IN /\ heads = <<"Smart Contract Security Audit Report",
                        "Executive Summary",
                        "Security Findings",
                        IF gas_optimizations = <<>>
                        THEN "Gas Optimization" ELSE "Gas Optimization Opportunities",
                        "Recommendations",
                        "Disclaimer">>
           /\ report[1].kind = "h1"
           /\ has("No Vulnerabilities Detected") <=> vulnerabilities = <<>>
           /\ has("No Major Gas Optimizations Found") <=> gas_optimizations = <<>>
           /\ vulnerabilities = <<>> => OfKind(report, {"severity_group", "vuln"}) = <<>>
           /\ gas_optimizations = <<>> => OfKind(report, {"category_group", "opt"}) = <<>>

\* a report on no finding at all
C4_Witness ==
    /\ pc = "rendered"
    /\ vulnerabilities = <<>>
    /\ gas_optimizations = <<>>

\* C9: generate_report leaves both lists as they were; under the heading of a
\* severity stand exactly the security findings of that severity, in input
\* order, equal findings as separate entries, and likewise the efficiency
\* findings of a category under the heading of the category; no finding is
\* rendered anywhere else in the two sections.
C9_NoDropNoDuplicate ==
    [][pc' = "rendered" =>
        /\ vulnerabilities' = vulnerabilities
        /\ gas_optimizations' = gas_optimizations
        /\ \A k \in 1..Len(Severity) :
             GroupItems(report', "severity_group", "vuln", Severity[k])
                 = SelectSeq(vulnerabilities, LAMBDA v : v.severity = Severity[k])
        /\ Len(OfKind(report', {"vuln"})) = Len(vulnerabilities)
        /\ \A o \in ReportOpts :
             GroupItems(report', "category_group", "opt", o.category)
                 = SelectSeq(gas_optimizations, LAMBDA g : g.category = o.category)
        /\ Len(OfKind(report', {"opt"})) = Len(gas_optimizations)
      ]_vars

\* a report on a security list that holds the same finding twice, and on an
\* efficiency finding
C9_Witness ==
    /\ pc = "rendered"
    /\ Len(vulnerabilities) = 2
    /\ vulnerabilities[1] = vulnerabilities[2]
    /\ gas_optimizations # <<>>

\* C10: Key Concerns holds the first min(5, k) of the k Critical-or-High
\* findings, in input order; with k = 0 it is the "No critical or high
\* severity issues found." message.
C10_KeyConcerns ==
    pc = "rendered" =>
        LET critical_or_high ==
                SelectSeq(vulnerabilities, LAMBDA v : v.severity \in {"Critical", "High"})
            k == Len(critical_or_high)
            concerns == OfKind(report, {"concern"})
            message == Block("text", "No critical or high severity issues found.", 0, <<>>)
        IN /\ Len(concerns) = (IF k < 5 THEN k ELSE 5)
           /\ \A i \in 1..Len(concerns) : concerns[i].item = <<critical_or_high[i]>>
           /\ (\E i \in 1..Len(report) : report[i] = message) <=> k = 0

\* a report on more than five Critical-or-High findings, a High one first
C10_Witness ==
    /\ pc = "rendered"
    /\ Len(SelectSeq(vulnerabilities, LAMBDA v : v.severity \in {"Critical", "High"})) > 5
    /\ vulnerabilities[1].severity = "High"
    /\ vulnerabilities[2].severity = "Critical"

\* C11: on a non-empty efficiency list the Efficiency section has one group
\* heading per distinct category, the headings in the order in which the
\* categories first occur in the list, each heading counting the findings of
\* its category.
C11_CategoryGroups ==
    (pc = "rendered" /\ gas_optimizations # <<>>) =>
        LET groups == OfKind(report, {"category_group"})
            cats == {gas_optimizations[i].category : i \in 1..Len(gas_optimizations)}
            FirstAt(c) == Min({i \in 1..Len(gas_optimizations) :
                                  gas_optimizations[i].category = c})
        IN /\ Len(groups) = Cardinality(cats)
           /\ \A k \in 1..Len(groups) :
                /\ groups[k].text \in cats
                /\ \A j \in 1..(k - 1) :
                     FirstAt(groups[j].text) < FirstAt(groups[k].text)
                /\ groups[k].n =
                     Len(SelectSeq(gas_optimizations,
                                   LAMBDA o : o.category = groups[k].text))

\* a report on three efficiency findings whose first category comes back
\* after a second one
C11_Witness ==
    /\ pc = "rendered"
    /\ Len(gas_optimizations) = 3
    /\ gas_optimizations[1].category = "Loop Optimization"
    /\ gas_optimizations[2].category = "Error Handling"
    /\ gas_optimizations[3].category = "Loop Optimization"

-----------------------------------------------------------------------------
(* Properties of the command line *)

\* C12: a command given a path that does not end in ".sol" calls neither the
\* vulnerability detector nor the rule engine and generates no report, be the
\* command scan or quick.
C12_NoAnalysisOnBadExtension ==
    ~EndsWith(cli_contract_path, ".sol") =>
        /\ \A k \in 1..Len(calls) :
             calls[k] \notin {"analyze_contract", "analyze_gas",
                              "generate_markdown_report"}
        /\ report = <<>>
        /\ vulnerabilities = <<>>
        /\ gas_optimizations = <<>>

-----------------------------------------------------------------------------
(* Properties of single rules *)

\* the findings the step appended to self.optimizations
Appended == SubSeq(optimizations', Len(optimizations) + 1, Len(optimizations'))

\* the findings are those of one category, one for each line number of S, in
\* ascending line order
OnePerLine(found, category, S) ==
    /\ \A k \in 1..Len(found) :
         /\ found[k].category = category
         /\ found[k].line_number \in S
         /\ \A j \in 1..(k - 1) : found[j].line_number < found[k].line_number
    /\ Len(found) = Cardinality(S)

DeclaresPublicFunction(line) ==
    /\ Contains(line, "function")
    /\ Contains(line, "public")
    /\ ~Contains(line, "constructor")

\* some line other than line i calls the function as this.name(
CalledThroughThis(lns, i, name) ==
    \E k \in 1..Len(lns) : k # i /\ Contains(lns[k], "this." \o name \o "(")

\* some line without 'function' and without 'this.' holds name(
CalledWithoutThis(lns, name) ==
    \E k \in 1..Len(lns) :
        /\ Contains(lns[k], name \o "(")
        /\ ~Contains(lns[k], "function")
        /\ ~Contains(lns[k], "this.")

DeclaresPublicVariable(line) ==
    /\ Contains(line, "uint256") \/ Contains(line, "address")
    /\ Contains(line, "public")
    /\ ~Contains(line, "constant")
    /\ ~Contains(line, "immutable")
    /\ SearchPublicVar(line).matched

\* some line other than line i assigns to the identifier
AssignedOnOtherLine(lns, i, name) ==
    \E k \in 1..Len(lns) : k # i /\ Contains(lns[k], name \o " =")

\* some line without 'public' holds the identifier followed by ' ='
AssignedOutsideDeclarations(lns, name) ==
    \E k \in 1..Len(lns) :
        Contains(lns[k], name \o " =") /\ ~Contains(lns[k], "public")

\* C15 as stated: check_constant_immutable emits one finding for each public
\* uint256 or address declaration without constant or immutable whose
\* identifier no other line assigns, with or without an initializer on the
\* declaration line.
C15_AnyDeclaration ==
    [][pc' = "check_constant_immutable" =>
        OnePerLine(Appended, "State Variable",
            {i \in 1..Len(lines) :
                /\ DeclaresPublicVariable(lines[i])
                /\ ~AssignedOnOtherLine(lines, i, SearchPublicVar(lines[i]).name)})
      ]_vars

\* C15, amended: check_constant_immutable emits one finding for each public
\* uint256 or address declaration line without constant or immutable that
\* holds '=' and whose identifier is followed by ' =' on no line lacking
\* 'public'; a declaration line without '=' is never reported.
C15_InitializedDeclaration ==
    [][pc' = "check_constant_immutable" =>
        OnePerLine(Appended, "State Variable",
            {i \in 1..Len(lines) :
                /\ DeclaresPublicVariable(lines[i])
                /\ Contains(lines[i], "=")
                /\ ~AssignedOutsideDeclarations(lines, SearchPublicVar(lines[i]).name)})
      ]_vars

\* check_constant_immutable has reported a declaration and has passed over a
\* declaration without initializer whose identifier no line without 'public'
\* assigns
C15_Witness ==
    /\ pc = "check_constant_immutable"
    /\ \E k \in 1..Len(optimizations) : optimizations[k].category = "State Variable"
    /\ \E i \in 1..Len(lines) :
         /\ DeclaresPublicVariable(lines[i])
         /\ ~Contains(lines[i], "=")
         /\ ~AssignedOutsideDeclarations(lines, SearchPublicVar(lines[i]).name)
         /\ \A k \in 1..Len(optimizations) : optimizations[k].line_number # i

\* number of occurrences of the character ch in the line
CountChar(line, ch) == Cardinality({k \in 1..Len(line) : CharAt(line, k) = ch})

\* '{' minus '}' of the line
NetBraces(line) == CountChar(line, "{") - CountChar(line, "}")

LoopHeader(line) == Contains(line, "for") /\ Contains(line, "(")

IndexesCollection(line) ==
    \/ Contains(line, "balances[")
    \/ Contains(line, "users[")
    \/ Contains(line, "items[")

\* the lines from i on that index a collection inside a loop's scope, `depth`
\* being the number of blocks of the loop open before line i
RECURSIVE ScopedAccesses(_, _, _)
ScopedAccesses(lns, i, depth) ==
    IF i > Len(lns) THEN {}
    ELSE LET after == depth + NetBraces(lns[i])
             next == IF after > 0 THEN after ELSE 0
         IN IF LoopHeader(lns[i]) THEN ScopedAccesses(lns, i + 1, next)
            ELSE IF depth > 0
            THEN (IF IndexesCollection(lns[i]) THEN {i} ELSE {})
                 \cup ScopedAccesses(lns, i + 1, next)
            ELSE ScopedAccesses(lns, i + 1, 0)

\* line i comes after a loop header with no line holding '}' in between
AfterHeaderBeforeBrace(lns, i) ==
    \E h \in 1..(i - 1) :
        /\ LoopHeader(lns[h])
        /\ \A k \in (h + 1)..(i - 1) : LoopHeader(lns[k]) \/ ~Contains(lns[k], "}")

\* C16 as stated: check_storage_vs_memory is inside a loop from a loop header
\* until that loop's scope closes, and reports exactly the lines inside a loop
\* that index balances[, users[ or items[, a line after the closing brace of
\* a nested block included.
C16_UntilScopeCloses ==
    [][pc' = "check_storage_vs_memory" =>
        OnePerLine(Appended, "Storage Access", ScopedAccesses(lines, 1, 0))
      ]_vars

\* C16, amended: check_storage_vs_memory is inside a loop from a line holding
\* 'for' and '(' until the next line that holds '}' and is not such a header,
\* whichever block that brace closes; it reports exactly the lines that are
\* not headers, hold no '}', hold '[' and ']' and one of balances[, users[,
\* items[, and come after a header with no such '}' line in between.
C16_UntilNextBrace ==
    [][pc' = "check_storage_vs_memory" =>
        OnePerLine(Appended, "Storage Access",
            {i \in 1..Len(lines) :
                /\ ~LoopHeader(lines[i])
                /\ ~Contains(lines[i], "}")
                /\ Contains(lines[i], "[") /\ Contains(lines[i], "]")
                /\ IndexesCollection(lines[i])
                /\ AfterHeaderBeforeBrace(lines, i)})
      ]_vars

\* check_storage_vs_memory has run on a loop whose body holds a one-line
\* nested block and then a collection access, and has reported nothing
C16_Witness ==
    /\ pc = "check_storage_vs_memory"
    /\ Len(lines) = 3
    /\ LoopHeader(lines[1])
    /\ NetBraces(lines[1]) = 1
    /\ Contains(lines[2], "}") /\ NetBraces(lines[2]) = 0
    /\ IndexesCollection(lines[3])
    /\ optimizations = <<>>

=============================================================================
